---- MODULE Spec2Model ----
(***************************************************************************)
(* Model of patchChangelog.js: processChangelog and its helpers            *)
(* getFirstVersionHeader and isHigherVersion.                              *)
(*                                                                         *)
(* Text is a sequence of one-character strings, so that the regular        *)
(* expressions, split, trim and slice of the source are modelled by what   *)
(* they do on characters.  Indices in the model are 1-based; matchIndex    *)
(* keeps the 0-based value of unreleasedMatch.index.                       *)
(***************************************************************************)
EXTENDS Integers, Sequences, FiniteSets, TLC

VARIABLES
    changelogContent,     \* argument: the document text
    packageVersion,       \* argument: the target version string
    dateStr,              \* currentDateStr, or today's date when it is absent
    pc,                   \* position inside processChangelog
    currentVersion,       \* result of getFirstVersionHeader (Null when none)
    higher,               \* last result of isHigherVersion
    error,                \* message of the thrown Error (Null when none)
    matchIndex,           \* unreleasedMatch.index
    unreleasedBlock,      \* unreleasedMatch[1]
    unreleasedLines,      \* unreleasedBlock.split('\n')
    lineIdx,              \* position of the for-of loop in unreleasedLines
    currentCategory,      \* cursor of the line walk (Null when none)
    categoryContent,      \* per-category buffer
    newReleaseSection,    \* synthesized release section
    newUnreleasedSection, \* reset pending section
    updatedContent,       \* returned text (Null when nothing was returned)
    round,                \* 1: first run, 2: run on the first run's output
    prevVersion           \* the packageVersion of the first run (Null in run 1)

vars == <<changelogContent, packageVersion, dateStr, pc, currentVersion, higher,
          error, matchIndex, unreleasedBlock, unreleasedLines, lineIdx,
          currentCategory, categoryContent, newReleaseSection,
          newUnreleasedSection, updatedContent, round, prevVersion>>

\* null / undefined: a value no text of the model is equal to.
Null == <<"null">>

----------------------------------------------------------------------------
\* Bounds of the inputs.

\* Longest pending-block body (in lines) of the enumerated documents.
MaxBody == 4

\* Most dot-separated parts of the version strings given to isHigherVersion
\* in SpecVer.
MaxParts == 3

----------------------------------------------------------------------------
\* Characters and elementary text operations.

Digits == {"0", "1", "2", "3", "4", "5", "6", "7", "8", "9"}

Letters ==
    {"a", "b", "c", "d", "e", "f", "g", "h", "i", "j", "k", "l", "m",
     "n", "o", "p", "q", "r", "s", "t", "u", "v", "w", "x", "y", "z",
     "A", "B", "C", "D", "E", "F", "G", "H", "I", "J", "K", "L", "M",
     "N", "O", "P", "Q", "R", "S", "T", "U", "V", "W", "X", "Y", "Z"}

\* \w of the regular expressions.
WordChars == Letters \cup Digits \cup {"_"}

\* \s of the regular expressions and the characters trim() strips.
Whitespace == {" ", "\t", "\n", "\r"}

\* Characters after which ^ matches under the m flag.
LineTerminators == {"\n", "\r"}

MinOf(S) == CHOOSE x \in S : \A y \in S : x <= y

MaxOf(S) == CHOOSE x \in S : \A y \in S : x >= y

\* The literal lit occurs in s at position p.
HasAt(s, p, lit) ==
    /\ p >= 1
    /\ p + Len(lit) - 1 <= Len(s)
    /\ \A k \in 1..Len(lit) : s[p + k - 1] = lit[k]

\* String.prototype.includes.
Contains(s, sub) == \E p \in 1..(Len(s) + 1) : HasAt(s, p, sub)

\* First position at or after i whose character is not in class (greedy X*).
SkipIn(s, i, class) ==
    IF i > Len(s)
    THEN i
    ELSE MinOf({j \in i..(Len(s) + 1) : j = Len(s) + 1 \/ s[j] \notin class})

\* ^ under the m flag matches at position p.
AtLineStart(s, p) == p = 1 \/ (p >= 2 /\ p - 1 <= Len(s) /\ s[p - 1] \in LineTerminators)

\* String.prototype.split with a one-character separator.
RECURSIVE Split(_, _)
Split(s, sep) ==
    LET hits == {i \in 1..Len(s) : s[i] = sep}
    IN  IF hits = {}
        THEN <<s>>
        ELSE LET i == MinOf(hits)
             IN  <<SubSeq(s, 1, i - 1)>> \o Split(SubSeq(s, i + 1, Len(s)), sep)

\* String.prototype.trim.
Trim(s) ==
    LET keep == {i \in 1..Len(s) : s[i] \notin Whitespace}
    IN  IF keep = {} THEN << >> ELSE SubSeq(s, MinOf(keep), MaxOf(keep))

DigitValue(c) ==
    CASE c = "0" -> 0 [] c = "1" -> 1 [] c = "2" -> 2 [] c = "3" -> 3
      [] c = "4" -> 4 [] c = "5" -> 5 [] c = "6" -> 6 [] c = "7" -> 7
      [] c = "8" -> 8 [] c = "9" -> 9

RECURSIVE DecimalValue(_)
DecimalValue(seg) ==
    IF seg = << >>
    THEN 0
    ELSE 10 * DecimalValue(SubSeq(seg, 1, Len(seg) - 1)) + DigitValue(seg[Len(seg)])

\* Number(seg) || 0 for a segment of digits; the empty segment is 0, and a
\* segment with any other character is NaN, which || turns into 0.
NumberOrZero(seg) ==
    IF seg # << >> /\ \A k \in 1..Len(seg) : seg[k] \in Digits
    THEN DecimalValue(seg)
    ELSE 0

----------------------------------------------------------------------------
\* getFirstVersionHeader

\* /^##\s*\[(?:V)?(\d+\.\d+\.\d+)\]\s*-\s*\d{4}-\d{2}-\d{2}/ tried at position
\* p: the captured group, or Null.  Every class is followed by a character
\* outside it, so the greedy match is the only one.
VersionHeaderAt(s, p) ==
    IF ~HasAt(s, p, <<"#","#">>) THEN Null ELSE
    LET a  == SkipIn(s, p + 2, Whitespace)
        b  == IF HasAt(s, a, <<"[">>) /\ HasAt(s, a + 1, <<"V">>) THEN a + 2 ELSE a + 1
        d1 == SkipIn(s, b, Digits)
        d2 == SkipIn(s, d1 + 1, Digits)
        d3 == SkipIn(s, d2 + 1, Digits)
        e  == SkipIn(s, d3 + 1, Whitespace)
        f  == SkipIn(s, e + 1, Whitespace)
        digitsAt(i, n) == i + n - 1 <= Len(s) /\ \A k \in i..(i + n - 1) : s[k] \in Digits
    IN  IF /\ HasAt(s, a, <<"[">>)
           /\ d1 > b /\ HasAt(s, d1, <<".">>)
           /\ d2 > d1 + 1 /\ HasAt(s, d2, <<".">>)
           /\ d3 > d2 + 1 /\ HasAt(s, d3, <<"]">>)
           /\ HasAt(s, e, <<"-">>)
           /\ digitsAt(f, 4) /\ HasAt(s, f + 4, <<"-">>)
           /\ digitsAt(f + 5, 2) /\ HasAt(s, f + 7, <<"-">>)
           /\ digitsAt(f + 8, 2)
        THEN SubSeq(s, b, d3 - 1)
        ELSE Null

getFirstVersionHeader(content) ==
    LET hits == {p \in 1..Len(content) :
                    AtLineStart(content, p) /\ VersionHeaderAt(content, p) # Null}
    IN  IF hits = {} THEN Null ELSE VersionHeaderAt(content, MinOf(hits))

----------------------------------------------------------------------------
\* isHigherVersion

\* versionParts[i] || 0, with i counted from 1.
PartOrZero(parts, i) == IF i <= Len(parts) THEN NumberOrZero(parts[i]) ELSE 0

\* The for loop from index i on.
RECURSIVE HigherFrom(_, _, _, _)
HigherFrom(versionParts, currentParts, i, maxLength) ==
    IF i > maxLength
    THEN FALSE
    ELSE LET v == PartOrZero(versionParts, i)
             c == PartOrZero(currentParts, i)
         IN  IF v > c THEN TRUE
             ELSE IF v < c THEN FALSE
             ELSE HigherFrom(versionParts, currentParts, i + 1, maxLength)

\* Mutant: the versions compare as higher when they are equal.
isHigherVersion_orEqual(version, current) ==
    LET versionParts == Split(version, ".")
        currentParts == Split(current, ".")
        maxLength    == IF Len(versionParts) >= Len(currentParts)
                        THEN Len(versionParts) ELSE Len(currentParts)
    IN  ~HigherFrom(currentParts, versionParts, 1, maxLength)

\* Mutant: the loop runs over the shorter of the two versions (Math.min).
isHigherVersion_minLength(version, current) ==
    LET versionParts == Split(version, ".")
        currentParts == Split(current, ".")
        minLength    == IF Len(versionParts) <= Len(currentParts)
                        THEN Len(versionParts) ELSE Len(currentParts)
    IN  HigherFrom(versionParts, currentParts, 1, minLength)

isHigherVersion(version, current) ==
    LET versionParts == Split(version, ".")
        currentParts == Split(current, ".")
        maxLength    == IF Len(versionParts) >= Len(currentParts)
                        THEN Len(versionParts) ELSE Len(currentParts)
    IN  HigherFrom(versionParts, currentParts, 1, maxLength)

----------------------------------------------------------------------------
\* The pending section.

MarkerLine == <<"#","#"," ","[","U","n","r","e","l","e","a","s","e","d","]">>

\* (?=^## ) under the m flag holds at position q.
HeaderAhead(s, q) == AtLineStart(s, q) /\ HasAt(s, q, <<"#","#"," ">>)

\* Mutant: the body of the block is matched greedily ([\s\S]*).
unreleasedMatch_greedy(s) ==
    LET lit      == MarkerLine \o <<"\n">>
        ends(p)  == {q \in (p + Len(lit))..Len(s) : HeaderAhead(s, q)}
        starts   == {p \in 1..Len(s) : HasAt(s, p, lit) /\ ends(p) # {}}
    IN  IF starts = {}
        THEN [found |-> FALSE, index |-> 0, block |-> << >>]
        ELSE LET p == MinOf(starts)
                 q == MaxOf(ends(p))
             IN  [found |-> TRUE, index |-> p - 1, block |-> SubSeq(s, p, q - 1)]

\* Mutant: the block may also end at the end of the text ((?=^## |$) without
\* the m flag on $).
unreleasedMatch_orEnd(s) ==
    LET lit      == MarkerLine \o <<"\n">>
        ends(p)  == {q \in (p + Len(lit))..(Len(s) + 1) :
                        q = Len(s) + 1 \/ HeaderAhead(s, q)}
        starts   == {p \in 1..Len(s) : HasAt(s, p, lit)}
    IN  IF starts = {}
        THEN [found |-> FALSE, index |-> 0, block |-> << >>]
        ELSE LET p == MinOf(starts)
                 q == MinOf(ends(p))
             IN  [found |-> TRUE, index |-> p - 1, block |-> SubSeq(s, p, q - 1)]

\* /(## \[Unreleased\]\n([\s\S]*?))(?=^## )/m: the leftmost start with the
\* non-greedy body ending at the first position where the lookahead holds.
unreleasedMatch(s) ==
    LET lit      == MarkerLine \o <<"\n">>
        ends(p)  == {q \in (p + Len(lit))..Len(s) : HeaderAhead(s, q)}
        starts   == {p \in 1..Len(s) : HasAt(s, p, lit) /\ ends(p) # {}}
    IN  IF starts = {}
        THEN [found |-> FALSE, index |-> 0, block |-> << >>]
        ELSE LET p == MinOf(starts)
                 q == MinOf(ends(p))
             IN  [found |-> TRUE, index |-> p - 1, block |-> SubSeq(s, p, q - 1)]

categories ==
    << <<"A","d","d","e","d">>, <<"C","h","a","n","g","e","d">>, <<"D","e","p","r","e","c","a","t","e","d">>, <<"R","e","m","o","v","e","d">>, <<"F","i","x","e","d">>, <<"S","e","c","u","r","i","t","y">> >>

CategorySet == {categories[i] : i \in 1..Len(categories)}

\* line.match(/^###\s*(\w+)/): the captured name, or Null.
headerMatch(line) ==
    IF ~HasAt(line, 1, <<"#","#","#">>) THEN Null ELSE
    LET a == SkipIn(line, 4, Whitespace)
        b == SkipIn(line, a, WordChars)
    IN  IF b > a THEN SubSeq(line, a, b - 1) ELSE Null

\* headerMatch && categories.includes(headerMatch[1])
IsCategoryHeader(line) == headerMatch(line) # Null /\ headerMatch(line) \in CategorySet

----------------------------------------------------------------------------
\* The rebuilt sections.

\* `### ${category}\n\n${bullets}\n\n` for each category with bullets, from
\* category i on.
RECURSIVE ReleaseBody(_, _)
ReleaseBody(content, i) ==
    IF i > Len(categories)
    THEN << >>
    ELSE LET bullets == content[categories[i]]
         IN  (IF bullets # << >>
              THEN <<"#","#","#"," ">> \o categories[i] \o <<"\n","\n">> \o bullets \o <<"\n","\n">>
              ELSE << >>)
             \o ReleaseBody(content, i + 1)

\* Mutant: every category gets a subsection, empty or not.
RECURSIVE ReleaseBody_all(_, _)
ReleaseBody_all(content, i) ==
    IF i > Len(categories)
    THEN << >>
    ELSE <<"#","#","#"," ">> \o categories[i] \o <<"\n","\n">> \o content[categories[i]] \o <<"\n","\n">>
         \o ReleaseBody_all(content, i + 1)

BuildReleaseSection_allCategories(newVersion, date, content) ==
    <<"#","#"," ","[">> \o newVersion \o <<"]"," ","-"," ">> \o date \o <<"\n","\n">> \o ReleaseBody_all(content, 1)

BuildReleaseSection(newVersion, date, content) ==
    <<"#","#"," ","[">> \o newVersion \o <<"]"," ","-"," ">> \o date \o <<"\n","\n">> \o ReleaseBody(content, 1)

RECURSIVE EmptyCategories(_)
EmptyCategories(i) ==
    IF i > Len(categories)
    THEN << >>
    ELSE <<"#","#","#"," ">> \o categories[i] \o <<"\n","\n">> \o EmptyCategories(i + 1)

BuildUnreleasedSection == MarkerLine \o <<"\n","\n">> \o EmptyCategories(1)

\* Mutant: the rest is sliced after the length of the block's body
\* (unreleasedMatch[2]) instead of the block's.
Splice_bodyLength(content, index, blockLen, unreleasedSection, releaseSection) ==
    SubSeq(content, 1, index)
        \o unreleasedSection
        \o <<"\n">>
        \o releaseSection
        \o SubSeq(content, index + (blockLen - Len(MarkerLine) - 1) + 1, Len(content))

\* The splice of lines 126-131; index is 0-based, as in the source.
Splice(content, index, blockLen, unreleasedSection, releaseSection) ==
    SubSeq(content, 1, index)
        \o unreleasedSection
        \o <<"\n">>
        \o releaseSection
        \o SubSeq(content, index + blockLen + 1, Len(content))

\* Messages of the three throw statements.
AlreadyInMessage(newVersion) ==
    <<"V","e","r","s","i","o","n"," ","c","o","n","f","l","i","c","t",":"," ">> \o newVersion \o <<" ","i","s"," ","a","l","r","e","a","d","y"," ","i","n"," ","C","H","A","N","G","E","L","O","G",".","m","d">>

NotHigherMessage(newVersion, current) ==
    <<"V","e","r","s","i","o","n"," ","c","o","n","f","l","i","c","t",":"," ">> \o newVersion \o <<" ","i","s"," ","n","o","t"," ","h","i","g","h","e","r"," ","t","h","a","n"," ">> \o current

NoUnreleasedMessage == <<"C","o","u","l","d"," ","n","o","t"," ","f","i","n","d"," ","\"","U","n","r","e","l","e","a","s","e","d","\""," ","s","e","c","t","i","o","n"," ","i","n"," ","C","H","A","N","G","E","L","O","G",".","m","d">>

----------------------------------------------------------------------------
\* Inputs.

\* Lines a pending block is made of: two category headers, a bullet, a blank
\* line, and a category name followed by further text.
BodyLines ==
    { <<"#","#","#"," ","A","d","d","e","d">>, <<"#","#","#"," ","F","i","x","e","d">>, <<"-"," ","a">>, << >>, <<"#","#","#"," ","A","d","d","e","d"," ","l","a","t","e","r">> }

\* All sequences of at most n lines.
RECURSIVE BodiesUpTo(_)
BodiesUpTo(n) ==
    IF n = 0
    THEN {<< >>}
    ELSE LET shorter == BodiesUpTo(n - 1)
         IN  shorter \cup {Append(b, l) : b \in shorter, l \in BodyLines}

\* Further bodies, used with every document shape: other spellings of the
\* subsection header, and the layout of the sample changelog.
ShapeBodies ==
    { << >>,
      << << >>, <<"#","#","#"," ","A","d","d","e","d">>, <<"-"," ","a">>, << >>, <<"#","#","#"," ","C","h","a","n","g","e","d">>, <<"-"," ","b">>, << >>,
         <<"#","#","#"," ","D","e","p","r","e","c","a","t","e","d">>, << >> >>,
      << <<"#","#","#"," ","a","d","d","e","d">>, <<"-"," ","a">> >>,
      << <<"#","#","#","S","e","c","u","r","i","t","y">>, <<"-"," ","a">>, <<"#","#","#"," ","A","d","d","e","d","x">>, <<"#","#","#","#"," ","F","i","x","e","d">> >>,
      << <<"#","#","#"," ","R","e","m","o","v","e","d"," ","t","e","x","t">>, <<"-"," ","a">> >>,
      << <<"-"," ","b">>, <<"#","#","#"," ","A","d","d","e","d">>, <<"-"," ","a">>, <<"#","#","#"," ","F","i","x","e","d">>, << >>, <<"#","#","#"," ","A","d","d","e","d">>, <<"-"," ","a">> >> }

\* Each line followed by a newline.
RECURSIVE JoinLines(_)
JoinLines(ls) ==
    IF ls = << >> THEN << >> ELSE Head(ls) \o <<"\n">> \o JoinLines(Tail(ls))

Preambles ==
    { << >>,
      <<"#"," ","C","h","a","n","g","e","l","o","g","\n","\n">>,
      <<"#","#"," ","[","V","1",".","0",".","0","]"," ","-"," ","2","0","2","4","-","0","1","-","0","1","\n","-"," ","o","\n","\n">> }

Markers ==
    { << >>, MarkerLine \o <<"\n">> }

Tails ==
    { << >>,
      <<"#","#"," ","[","V","1",".","0",".","1","]"," ","-"," ","2","0","2","4","-","0","2","-","1","4","\n","\n","#","#","#"," ","F","i","x","e","d","\n","-"," ","f","\n">>,
      <<"#","#"," ","N","o","t","e","s","\n","-"," ","n","\n">>,
      <<"#","#"," ","[","1",".","0",".","1","]"," ","-"," ","2","0","2","4","-","0","2","-","1","4","\n","-"," ","f","\n">> }

Document(preamble, marker, body, tail) == preamble \o marker \o JoinLines(body) \o tail

\* The sample layout with every body.
BodyDocuments ==
    { Document(<<"#"," ","C","h","a","n","g","e","l","o","g","\n","\n">>, MarkerLine \o <<"\n">>, b,
               <<"#","#"," ","[","V","1",".","0",".","1","]"," ","-"," ","2","0","2","4","-","0","2","-","1","4","\n","\n","#","#","#"," ","F","i","x","e","d","\n","-"," ","f","\n">>) :
        b \in BodiesUpTo(MaxBody) }

\* Every shape of document with a few bodies.
ShapeDocuments ==
    { Document(p, m, b, t) : p \in Preambles, m \in Markers, b \in ShapeBodies, t \in Tails }

TargetVersions == { <<"1",".","0",".","0">>, <<"1",".","0",".","1">>, <<"1",".","0",".","2">>, <<"1",".","1">> }

Dates == { <<"2","0","2","5","-","0","2","-","1","9">> }

EmptyContent == [c \in CategorySet |-> << >>]

----------------------------------------------------------------------------
\* processChangelog, by position.

\* The locals of processChangelog, as one conjunction.
Locals(cur, hi, err, idx, block, lines, li, cat, content, rel, unrel, out) ==
    /\ currentVersion' = cur
    /\ higher' = hi
    /\ error' = err
    /\ matchIndex' = idx
    /\ unreleasedBlock' = block
    /\ unreleasedLines' = lines
    /\ lineIdx' = li
    /\ currentCategory' = cat
    /\ categoryContent' = content
    /\ newReleaseSection' = rel
    /\ newUnreleasedSection' = unrel
    /\ updatedContent' = out

Init ==
    /\ \/ changelogContent \in BodyDocuments /\ packageVersion = <<"1",".","0",".","2">>
       \/ changelogContent \in ShapeDocuments /\ packageVersion \in TargetVersions
    /\ dateStr \in Dates
    /\ pc = "check"
    /\ currentVersion = Null
    /\ higher = FALSE
    /\ error = Null
    /\ matchIndex = 0
    /\ unreleasedBlock = << >>
    /\ unreleasedLines = << >>
    /\ lineIdx = 1
    /\ currentCategory = Null
    /\ categoryContent = EmptyContent
    /\ newReleaseSection = << >>
    /\ newUnreleasedSection = << >>
    /\ updatedContent = Null
    /\ round = 1
    /\ prevVersion = Null

\* Mutant: only the "already in" check is made; the "not higher" check of
\* lines 61-63 is missing.
CheckVersion_equalOnly ==
    /\ pc = "check"
    /\ LET newVersion == <<"V">> \o packageVersion
           cur        == getFirstVersionHeader(changelogContent)
       IN  /\ currentVersion' = cur
           /\ IF cur # Null /\ cur = newVersion
              THEN /\ error' = AlreadyInMessage(newVersion)
                   /\ pc' = "failed"
              ELSE /\ error' = error
                   /\ pc' = "match"
    /\ UNCHANGED <<changelogContent, packageVersion, dateStr, higher, matchIndex,
                   unreleasedBlock, unreleasedLines, lineIdx, currentCategory,
                   categoryContent, newReleaseSection, newUnreleasedSection,
                   updatedContent, round, prevVersion>>

\* Lines 53-63: locate the first release header and validate the version.
CheckVersion ==
    /\ pc = "check"
    /\ LET newVersion == <<"V">> \o packageVersion
           cur        == getFirstVersionHeader(changelogContent)
           hi         == IF cur # Null THEN isHigherVersion(packageVersion, cur) ELSE FALSE
       IN  /\ currentVersion' = cur
           /\ IF cur # Null /\ cur = newVersion
              THEN /\ error' = AlreadyInMessage(newVersion)
                   /\ higher' = higher
                   /\ pc' = "failed"
              ELSE IF cur # Null /\ ~hi
              THEN /\ error' = NotHigherMessage(newVersion, cur)
                   /\ higher' = hi
                   /\ pc' = "failed"
              ELSE /\ error' = error
                   /\ higher' = hi
                   /\ pc' = "match"
    /\ UNCHANGED <<changelogContent, packageVersion, dateStr, matchIndex,
                   unreleasedBlock, unreleasedLines, lineIdx, currentCategory,
                   categoryContent, newReleaseSection, newUnreleasedSection,
                   updatedContent, round, prevVersion>>

\* Lines 66-82: capture the pending block and set up the line walk.
MatchUnreleased ==
    /\ pc = "match"
    /\ LET m == unreleasedMatch(changelogContent)
       IN  IF ~m.found
           THEN /\ error' = NoUnreleasedMessage
                /\ pc' = "failed"
                /\ UNCHANGED <<matchIndex, unreleasedBlock, unreleasedLines>>
           ELSE /\ matchIndex' = m.index
                /\ unreleasedBlock' = m.block
                /\ unreleasedLines' = Split(m.block, "\n")
                /\ pc' = "walk"
                /\ error' = error
    /\ lineIdx' = 1
    /\ currentCategory' = Null
    /\ categoryContent' = EmptyContent
    /\ UNCHANGED <<changelogContent, packageVersion, dateStr, currentVersion, higher,
                   newReleaseSection, newUnreleasedSection, updatedContent, round,
                   prevVersion>>

\* Mutant: the `continue` of line 88 is missing, so a category header is
\* also accumulated into the buffer of the category it opens.
WalkLine_keepHeader ==
    /\ pc = "walk"
    /\ lineIdx <= Len(unreleasedLines)
    /\ LET line == unreleasedLines[lineIdx]
           cat  == IF IsCategoryHeader(line) THEN headerMatch(line) ELSE currentCategory
       IN  /\ currentCategory' = cat
           /\ categoryContent' =
                 IF cat # Null
                 THEN [categoryContent EXCEPT ![cat] = @ \o line \o <<"\n">>]
                 ELSE categoryContent
    /\ lineIdx' = lineIdx + 1
    /\ UNCHANGED <<changelogContent, packageVersion, dateStr, pc, currentVersion,
                   higher, error, matchIndex, unreleasedBlock, unreleasedLines,
                   newReleaseSection, newUnreleasedSection, updatedContent, round,
                   prevVersion>>

\* Lines 83-94: one iteration of the loop over unreleasedLines.
WalkLine ==
    /\ pc = "walk"
    /\ lineIdx <= Len(unreleasedLines)
    /\ LET line == unreleasedLines[lineIdx]
       IN  IF IsCategoryHeader(line)
           THEN /\ currentCategory' = headerMatch(line)
                /\ categoryContent' = categoryContent
           ELSE /\ currentCategory' = currentCategory
                /\ categoryContent' =
                      IF currentCategory # Null
                      THEN [categoryContent EXCEPT
                               ![currentCategory] = @ \o line \o <<"\n">>]
                      ELSE categoryContent
    /\ lineIdx' = lineIdx + 1
    /\ UNCHANGED <<changelogContent, packageVersion, dateStr, pc, currentVersion,
                   higher, error, matchIndex, unreleasedBlock, unreleasedLines,
                   newReleaseSection, newUnreleasedSection, updatedContent, round,
                   prevVersion>>

\* Lines 96-133: trim the buffers, build both sections and splice them in.
Rebuild ==
    /\ pc = "walk"
    /\ lineIdx > Len(unreleasedLines)
    /\ LET trimmed    == [c \in CategorySet |-> Trim(categoryContent[c])]
           newVersion == <<"V">> \o packageVersion
           release    == BuildReleaseSection(newVersion, dateStr, trimmed)
           unreleased == BuildUnreleasedSection
       IN  /\ categoryContent' = trimmed
           /\ newReleaseSection' = release
           /\ newUnreleasedSection' = unreleased
           /\ updatedContent' =
                 Splice(changelogContent, matchIndex, Len(unreleasedBlock),
                        unreleased, release)
    /\ pc' = "done"
    /\ UNCHANGED <<changelogContent, packageVersion, dateStr, currentVersion, higher,
                   error, matchIndex, unreleasedBlock, unreleasedLines, lineIdx,
                   currentCategory, round, prevVersion>>

\* Lines 137-179 run once more: the written file is read back and processed
\* with the version package.json then holds.
Reapply ==
    /\ pc = "done"
    /\ round = 1
    /\ changelogContent' = updatedContent
    /\ packageVersion' \in TargetVersions
    /\ prevVersion' = packageVersion
    /\ round' = 2
    /\ pc' = "check"
    /\ Locals(Null, FALSE, Null, 0, << >>, << >>, 1, Null, EmptyContent,
              << >>, << >>, Null)
    /\ UNCHANGED dateStr

Next == CheckVersion \/ MatchUnreleased \/ WalkLine \/ Rebuild \/ Reapply

Spec == Init /\ [][Next]_vars

----------------------------------------------------------------------------
\* isHigherVersion alone, on pairs of dotted numeric strings.

\* Texts of one version segment: one digit, and two digits whose order as
\* numbers differs from their order as text.
SegmentTexts == { <<"0">>, <<"2">>, <<"1","0">> }

RECURSIVE VersionsOfParts(_)
VersionsOfParts(n) ==
    IF n = 1
    THEN SegmentTexts
    ELSE {v \o <<".">> \o s : v \in VersionsOfParts(n - 1), s \in SegmentTexts}

VersionStrings == UNION {VersionsOfParts(n) : n \in 1..MaxParts}

InitVer ==
    /\ packageVersion \in VersionStrings
    /\ currentVersion \in VersionStrings
    /\ pc = "compare"
    /\ higher = FALSE
    /\ changelogContent = << >>
    /\ dateStr = << >>
    /\ error = Null
    /\ matchIndex = 0
    /\ unreleasedBlock = << >>
    /\ unreleasedLines = << >>
    /\ lineIdx = 1
    /\ currentCategory = Null
    /\ categoryContent = EmptyContent
    /\ newReleaseSection = << >>
    /\ newUnreleasedSection = << >>
    /\ updatedContent = Null
    /\ round = 1
    /\ prevVersion = Null

\* Lines 27-47: one call isHigherVersion(packageVersion, currentVersion).
CompareVersions ==
    /\ pc = "compare"
    /\ higher' = isHigherVersion(packageVersion, currentVersion)
    /\ pc' = "compared"
    /\ UNCHANGED <<changelogContent, packageVersion, dateStr, currentVersion, error,
                   matchIndex, unreleasedBlock, unreleasedLines, lineIdx,
                   currentCategory, categoryContent, newReleaseSection,
                   newUnreleasedSection, updatedContent, round, prevVersion>>

NextVer == CompareVersions

SpecVer == InitVer /\ [][NextVer]_vars

----------------------------------------------------------------------------
\* Vocabulary of the properties: what the claims speak of, stated without
\* the operators that compute it in the program.

\* The numbers of a dotted version string.
VersionNumbers(v) ==
    LET parts == Split(v, ".")
    IN  [i \in 1..Len(parts) |-> NumberOrZero(parts[i])]

SegmentOf(n, i) == IF i <= Len(n) THEN n[i] ELSE 0

\* a is greater than b in left-to-right segment-wise comparison, a missing
\* trailing segment counting as 0.
SegGreater(a, b) ==
    LET last == IF Len(a) >= Len(b) THEN Len(a) ELSE Len(b)
    IN  \E i \in 1..last :
            /\ SegmentOf(a, i) > SegmentOf(b, i)
            /\ \A j \in 1..(i - 1) : SegmentOf(a, j) = SegmentOf(b, j)

\* a and b are the same numbers up to trailing zero segments.
SameUpToZeros(a, b) ==
    LET last == IF Len(a) >= Len(b) THEN Len(a) ELSE Len(b)
    IN  \A i \in 1..last : SegmentOf(a, i) = SegmentOf(b, i)

\* The target passes both version checks: no release header, or strictly
\* higher than the first one.
VersionAccepted(content, target) ==
    LET first == getFirstVersionHeader(content)
    IN  first = Null \/ SegGreater(VersionNumbers(target), VersionNumbers(first))

Lines(text) == Split(text, "\n")

NonBlank(ls) == SelectSeq(ls, LAMBDA l : l # << >>)

\* The line `### <Category>` of category i.
CategoryLine(i) == <<"#","#","#"," ">> \o categories[i]

CategoryLines == {CategoryLine(i) : i \in 1..Len(categories)}

\* The category lines of those categories, in the fixed order, whose bucket
\* in content is not empty.
RECURSIVE FilledCategoryLines(_, _)
FilledCategoryLines(content, i) ==
    IF i > Len(categories)
    THEN << >>
    ELSE (IF content[categories[i]] # << >> THEN <<CategoryLine(i)>> ELSE << >>)
         \o FilledCategoryLines(content, i + 1)

\* Start of the first `## [Unreleased]` that a newline follows (0 when none).
MarkerStart(content) ==
    LET hits == {p \in 1..Len(content) : HasAt(content, p, MarkerLine \o <<"\n">>)}
    IN  IF hits = {} THEN 0 ELSE MinOf(hits)

\* Starts of the lines beginning with `## ` after the marker line.
HeadersAfterMarker(content) ==
    {q \in (MarkerStart(content) + Len(MarkerLine) + 1)..Len(content) :
        HeaderAhead(content, q)}

\* Category owning line n of the walk: the name on the last recognized
\* category header before it, Null when there is none.
Owner(ls, n) ==
    LET hs == {j \in 1..(n - 1) : IsCategoryHeader(ls[j])}
    IN  IF hs = {} THEN Null ELSE headerMatch(ls[MaxOf(hs)])

\* What the first n lines contribute to the buffer of category c.
RECURSIVE Accumulated(_, _, _)
Accumulated(ls, n, c) ==
    IF n = 0
    THEN << >>
    ELSE Accumulated(ls, n - 1, c)
         \o (IF ~IsCategoryHeader(ls[n]) /\ Owner(ls, n) = c
             THEN ls[n] \o <<"\n">>
             ELSE << >>)

Finished == pc \in {"failed", "done"}

----------------------------------------------------------------------------
\* C1: whenever the target version equals the version of the first release
\* header, the call ends with an error whose message contains "already in".
C1_EqualTargetAlreadyIn ==
    (pc # "check" /\ getFirstVersionHeader(changelogContent) = packageVersion)
        => (pc = "failed" /\ Contains(error, <<"a","l","r","e","a","d","y"," ","i","n">>))

\* C2 as stated: a document without the marker ends with the structure
\* error whatever the target version is.
C2_MissingMarkerAnyVersion ==
    (Finished /\ ~Contains(changelogContent, MarkerLine))
        => error = NoUnreleasedMessage

\* C2 amended: a document in which the marker text does not occur never gets
\* past the match; it ends with the structure error when the target passes
\* the version checks, and with a version conflict when it does not.
C2_MissingMarkerAfterVersionChecks ==
    ~Contains(changelogContent, MarkerLine)
        => /\ pc \in {"check", "match", "failed"}
           /\ updatedContent = Null
           /\ pc = "failed" =>
                 IF VersionAccepted(changelogContent, packageVersion)
                 THEN error = NoUnreleasedMessage
                 ELSE Contains(error, <<"V","e","r","s","i","o","n"," ","c","o","n","f","l","i","c","t">>)

C2_Witness ==
    /\ pc = "failed"
    /\ ~Contains(changelogContent, MarkerLine)
    /\ getFirstVersionHeader(changelogContent) # Null
    /\ error = NoUnreleasedMessage

\* C3: with a release header in the document and a target that is not
\* strictly higher than the first one, the call ends with a "Version
\* conflict" error and returns nothing; no version conflict is raised when
\* there is no release header or the target is strictly higher.
C3_NotHigherIsConflict ==
    pc # "check"
        => IF VersionAccepted(changelogContent, packageVersion)
           THEN ~Contains(error, <<"V","e","r","s","i","o","n"," ","c","o","n","f","l","i","c","t">>)
           ELSE /\ pc = "failed"
                /\ Contains(error, <<"V","e","r","s","i","o","n"," ","c","o","n","f","l","i","c","t">>)
                /\ updatedContent = Null

C3_Witness ==
    /\ pc = "failed"
    /\ getFirstVersionHeader(changelogContent) # Null
    /\ SegGreater(VersionNumbers(getFirstVersionHeader(changelogContent)),
                  VersionNumbers(packageVersion))
    /\ Contains(error, <<"V","e","r","s","i","o","n"," ","c","o","n","f","l","i","c","t">>)
    /\ updatedContent = Null

\* C4: a successful call returns the input up to the marker, the reset
\* pending section, a newline, the new release section, and the input from
\* the first `## ` line after the marker on, in this order and nothing else.
C4_SpliceKeepsFrame ==
    pc = "done"
        => LET start == MarkerStart(changelogContent)
               next  == MinOf(HeadersAfterMarker(changelogContent))
               head  == SubSeq(changelogContent, 1, start - 1)
               rest  == SubSeq(changelogContent, next, Len(changelogContent))
           IN  /\ start > 0
               /\ HeadersAfterMarker(changelogContent) # {}
               /\ updatedContent =
                     head \o newUnreleasedSection \o <<"\n">> \o newReleaseSection \o rest

C4_Witness ==
    /\ pc = "done"
    /\ round = 1
    /\ MarkerStart(changelogContent) > 1
    /\ categoryContent[<<"A","d","d","e","d">>] # << >>
    /\ Contains(updatedContent, <<"\n","\n","#","#"," ","[","V","1",".","0",".","1","]"," ","-"," ","2","0","2","4","-","0","2","-","1","4","\n","\n","#","#","#"," ","F","i","x","e","d","\n","-"," ","f","\n">>)
    /\ Contains(updatedContent, <<"#","#"," ","[","V","1",".","0",".","0","]"," ","-"," ","2","0","2","4","-","0","1","-","0","1","\n","-"," ","o","\n","\n","#","#"," ","[","U","n","r","e","l","e","a","s","e","d","]","\n">>)

\* C5: after a successful call the `### <Category>` lines of the release
\* section are those of the categories with non-empty trimmed content, in
\* the fixed order, each followed by that content; the reset section is the
\* marker followed by all six category lines in order and nothing else but
\* blank lines.
C5_ReleaseAndResetCategories ==
    pc = "done"
        => /\ SelectSeq(Lines(newReleaseSection), LAMBDA l : l \in CategoryLines)
                 = FilledCategoryLines(categoryContent, 1)
           /\ \A i \in 1..Len(categories) :
                 categoryContent[categories[i]] # << >>
                     => Contains(newReleaseSection,
                                 CategoryLine(i) \o <<"\n","\n">>
                                     \o categoryContent[categories[i]] \o <<"\n","\n">>)
           /\ NonBlank(Lines(newUnreleasedSection))
                 = <<MarkerLine>> \o [i \in 1..Len(categories) |-> CategoryLine(i)]

C5_Witness ==
    /\ pc = "done"
    /\ categoryContent[<<"A","d","d","e","d">>] = <<"-"," ","a">>
    /\ categoryContent[<<"C","h","a","n","g","e","d">>] = <<"-"," ","b">>
    /\ categoryContent[<<"D","e","p","r","e","c","a","t","e","d">>] = << >>
    /\ Contains(newReleaseSection, <<"#","#","#"," ","A","d","d","e","d","\n","\n","-"," ","a","\n","\n","#","#","#"," ","C","h","a","n","g","e","d","\n","\n","-"," ","b","\n","\n">>)

\* C6: a second call on the output of a successful call, with a target
\* strictly higher than the first one, raises no error and ends with every
\* bucket empty and a release section that is its header line alone.
C6_SecondRunReleasesNothing ==
    (round = 2 /\ SegGreater(VersionNumbers(packageVersion), VersionNumbers(prevVersion)))
        => /\ error = Null
           /\ pc # "failed"
           /\ pc = "done" =>
                 /\ \A c \in CategorySet : categoryContent[c] = << >>
                 /\ NonBlank(Lines(newReleaseSection))
                       = << <<"#","#"," ","[","V">> \o packageVersion \o <<"]"," ","-"," ">> \o dateStr >>

C6_Witness ==
    /\ round = 2
    /\ pc = "done"
    /\ SegGreater(VersionNumbers(packageVersion), VersionNumbers(prevVersion))
    /\ Contains(changelogContent, <<"#","#","#"," ","A","d","d","e","d","\n","\n","-"," ","a","\n","\n">>)
    /\ Contains(updatedContent, <<"#","#"," ","[","V","1",".","1","]"," ","-"," ","2","0","2","5","-","0","2","-","1","9","\n","\n","#","#"," ","[","V","1",".","0",".","2","]"," ","-"," ","2","0","2","5","-","0","2","-","1","9","\n","\n","#","#","#"," ","A","d","d","e","d">>)

\* C7: isHigherVersion(a, b) is exactly the segment-wise integer "greater
\* than" with missing trailing segments as 0; it is irreflexive, asymmetric
\* and transitive, and two versions that differ only by trailing zero
\* segments are not higher than each other.
C7_HigherIsSegmentOrder ==
    pc = "compared"
        => LET a == packageVersion
               b == currentVersion
           IN  /\ higher = SegGreater(VersionNumbers(a), VersionNumbers(b))
               /\ ~isHigherVersion(a, a)
               /\ higher => ~isHigherVersion(b, a)
               /\ higher =>
                     \A c \in VersionStrings :
                         isHigherVersion(b, c) => isHigherVersion(a, c)
               /\ SameUpToZeros(VersionNumbers(a), VersionNumbers(b))
                     => ~higher /\ ~isHigherVersion(b, a)

C7_Witness ==
    /\ pc = "compared"
    /\ packageVersion = <<"1","0">>
    /\ currentVersion = <<"2",".","0">>
    /\ higher

\* C8: a step of the line walk moves the cursor only on a line that is
\* exactly `### <Category>`; on every other line the cursor stays and the
\* line is handled as content.
C8_OnlyExactHeaderSwitches ==
    [][(pc = "walk" /\ lineIdx' = lineIdx + 1 /\ unreleasedLines[lineIdx] \notin CategoryLines)
          => /\ currentCategory' = currentCategory
             /\ currentCategory # Null =>
                   categoryContent' =
                       [categoryContent EXCEPT
                           ![currentCategory] = @ \o unreleasedLines[lineIdx] \o <<"\n">>]]_vars

\* C9: at every point of the walk the cursor is the category of the last
\* recognized header seen so far (none at the start), and each buffer holds,
\* in input order, exactly the unrecognized lines seen while its category
\* was the cursor; at the end each bucket is that text trimmed.
C9_BuffersFollowCursor ==
    /\ pc = "walk" =>
          /\ lineIdx \in 1..(Len(unreleasedLines) + 1)
          /\ currentCategory = Owner(unreleasedLines, lineIdx)
          /\ \A c \in CategorySet :
                categoryContent[c] = Accumulated(unreleasedLines, lineIdx - 1, c)
    /\ pc = "done" =>
          \A c \in CategorySet :
              categoryContent[c]
                  = Trim(Accumulated(unreleasedLines, Len(unreleasedLines), c))

C9_Witness ==
    /\ pc = "done"
    /\ round = 1
    /\ unreleasedLines =
          << MarkerLine, <<"-"," ","b">>, <<"#","#","#"," ","A","d","d","e","d">>, <<"-"," ","a">>, <<"#","#","#"," ","F","i","x","e","d">>, << >>,
             <<"#","#","#"," ","A","d","d","e","d">>, <<"-"," ","a">>, << >> >>
    /\ categoryContent[<<"A","d","d","e","d">>] = <<"-"," ","a","\n","-"," ","a">>
    /\ categoryContent[<<"F","i","x","e","d">>] = << >>
    /\ ~Contains(newReleaseSection, <<"-"," ","b">>)

\* C10: when the marker is in the document, no line starting with `## `
\* follows it and the version checks pass, the call ends with the structure
\* error and returns nothing.
C10_LastSectionIsStructureError ==
    (/\ pc \notin {"check", "match"}
     /\ MarkerStart(changelogContent) > 0
     /\ HeadersAfterMarker(changelogContent) = {}
     /\ VersionAccepted(changelogContent, packageVersion))
        => /\ pc = "failed"
           /\ error = NoUnreleasedMessage
           /\ updatedContent = Null

C10_Witness ==
    /\ pc = "failed"
    /\ MarkerStart(changelogContent) > 0
    /\ HeadersAfterMarker(changelogContent) = {}
    /\ getFirstVersionHeader(changelogContent) # Null
    /\ Contains(changelogContent, <<"-"," ","a","\n">>)
    /\ error = NoUnreleasedMessage

====
